---- MODULE Spec2Model ----
(***************************************************************************)
(* Authenticated red-black tree (src/authredblack.py, AuthRedBlack).       *)
(*                                                                         *)
(* A tree D is the Python tuple (c, L, (k, dL, dR), R) or the empty tuple  *)
(* (); it is modelled by the TLA+ tuple <<c, L, <<k, dL, dR>>, R>> or <<>>.*)
(* A proof step is the pair (c, (k, dL, dR)).  The digest of the empty     *)
(* tree is the empty string ''; it is modelled by EmptyDigest, a value     *)
(* that differs from the empty tree as '' differs from ().  The hash H is  *)
(* a parameter of AuthRedBlack; it is modelled as a collision-free         *)
(* function that builds the term of its argument and never returns ''.     *)
(***************************************************************************)
EXTENDS Integers, Sequences, FiniteSets, TLC

VARIABLES tree, prev, inserted, dup, op, q, member, proof, verdict

vars == <<tree, prev, inserted, dup, op, q, member, proof, verdict>>

\* ---------------------------------------------------------------- bounds
MaxKey == 13
MaxSize == 6
\* largest key of the runs in which a proof is tampered with
TamperMaxKey == 7
\* largest key and longest proof of the runs in which a proof is forged
ForgeMaxKey == 5
MaxProofLen == 4

\* keys that are inserted: the odd keys, so that a query can fall between
\* two stored keys, below the smallest and above the largest
Keys == {k \in 1..MaxKey : k % 2 = 1}
\* keys that are queried
QueryKeys == 0..(MaxKey + 1)

Colors == {"R", "B"}

\* ------------------------------------------------------ digest, rehash
\* the empty tree ()
Empty == <<>>
\* the empty string '', which is not the empty tree: '' != ()
EmptyDigest == <<"">>

\* the hash function handed to AuthRedBlack, applied to (c, k, dL, dR)
H(x) == x

digest(D) ==
    IF D = Empty THEN EmptyDigest
    ELSE H(<<D[1], D[3][1], D[3][2], D[3][3]>>)

\* rehash that forgets the right side
rehash_leftonly(D) ==
    <<D[1], D[2],
      <<D[3][1], IF D[2] # Empty THEN digest(D[2]) ELSE D[3][2], D[3][3]>>,
      D[4]>>

rehash(D) ==
    LET c == D[1]
        L == D[2]
        k == D[3][1]
        dL == D[3][2]
        dR == D[3][3]
        R == D[4]
    IN  <<c, L,
          <<k, IF L # Empty THEN digest(L) ELSE dL,
               IF R # Empty THEN digest(R) ELSE dR>>,
          R>>

\* ---------------------------------------------------------------- balance
\* a pattern that is a 4-tuple matches only a value of length 4
IsNode(t) == Len(t) = 4

\* rewrite that puts the keys x and z on the wrong sides
rewrite_wrongkeys(a, b, c, d, x, y, z, m, n, o, p) ==
    <<"R", <<"B", a, <<z, m, n>>, b>>,
           <<y, EmptyDigest, EmptyDigest>>,
           <<"B", c, <<x, o, p>>, d>>>>

\* the value every successful match returns
rewrite(a, b, c, d, x, y, z, m, n, o, p) ==
    <<"R", <<"B", a, <<x, m, n>>, b>>,
           <<y, EmptyDigest, EmptyDigest>>,
           <<"B", c, <<z, o, p>>, d>>>>

\* match(B,(R,(R,a,(x,m,n),b),(y,_,o),c),(z,_,p),d)
match1(D) ==
    IF /\ D[1] = "B" /\ IsNode(D[2]) /\ D[2][1] = "R"
       /\ IsNode(D[2][2]) /\ D[2][2][1] = "R"
    THEN rewrite(D[2][2][2], D[2][2][4], D[2][4], D[4],
                 D[2][2][3][1], D[2][3][1], D[3][1],
                 D[2][2][3][2], D[2][2][3][3], D[2][3][3], D[3][3])
    ELSE Empty

\* match(B,(R,a,(x,m,_),(R,b,(y,n,o),c)),(z,_,p),d)
match2(D) ==
    IF /\ D[1] = "B" /\ IsNode(D[2]) /\ D[2][1] = "R"
       /\ IsNode(D[2][4]) /\ D[2][4][1] = "R"
    THEN rewrite(D[2][2], D[2][4][2], D[2][4][4], D[4],
                 D[2][3][1], D[2][4][3][1], D[3][1],
                 D[2][3][2], D[2][4][3][2], D[2][4][3][3], D[3][3])
    ELSE Empty

\* match(B,a,(x,m,_),(R,(R,b,(y,n,o),c),(z,_,p),d))
match3(D) ==
    IF /\ D[1] = "B" /\ IsNode(D[4]) /\ D[4][1] = "R"
       /\ IsNode(D[4][2]) /\ D[4][2][1] = "R"
    THEN rewrite(D[2], D[4][2][2], D[4][2][4], D[4][4],
                 D[3][1], D[4][2][3][1], D[4][3][1],
                 D[3][2], D[4][2][3][2], D[4][2][3][3], D[4][3][3])
    ELSE Empty

\* match(B,a,(x,m,_),(R,b,(y,n,_),(R,c,(z,o,p),d)))
match4(D) ==
    IF /\ D[1] = "B" /\ IsNode(D[4]) /\ D[4][1] = "R"
       /\ IsNode(D[4][4]) /\ D[4][4][1] = "R"
    THEN rewrite(D[2], D[4][2], D[4][4][2], D[4][4][4],
                 D[3][1], D[4][3][1], D[4][4][3][1],
                 D[3][2], D[4][3][2], D[4][4][3][2], D[4][4][3][3])
    ELSE Empty

\* balance that never rewrites
balance_norewrite(D) == rehash(D)

\* match(..) or match(..) or match(..) or match(..) or D
balance(D) ==
    rehash(IF match1(D) # Empty THEN match1(D)
           ELSE IF match2(D) # Empty THEN match2(D)
           ELSE IF match3(D) # Empty THEN match3(D)
           ELSE IF match4(D) # Empty THEN match4(D)
           ELSE D)

\* ----------------------------------------------------------------- insert
make_black(D) == <<"B", D[2], D[3], D[4]>>

\* ins that colours the node it puts above two leaves Black
RECURSIVE ins_blacknode(_, _)
ins_blacknode(k, D) ==
    LET x == <<k, EmptyDigest, EmptyDigest>>
    IN  IF D = Empty THEN <<"B", Empty, x, Empty>>
        ELSE LET c == D[1]
                 a == D[2]
                 y == D[3]
                 b == D[4]
             IN  IF k = y[1] THEN D
                 ELSE IF k < y[1] /\ a = Empty
                      THEN balance(rehash(<<"B", ins_blacknode(k, a), x, make_black(D)>>))
                 ELSE IF k > y[1] /\ b = Empty
                      THEN balance(rehash(<<"B", make_black(D), y, ins_blacknode(k, b)>>))
                 ELSE IF k < y[1] THEN balance(<<c, ins_blacknode(k, a), y, b>>)
                 ELSE balance(<<c, a, y, ins_blacknode(k, b)>>)

\* ins that takes a key for present only at a node without children
RECURSIVE ins_leafdup(_, _)
ins_leafdup(k, D) ==
    LET x == <<k, EmptyDigest, EmptyDigest>>
    IN  IF D = Empty THEN <<"B", Empty, x, Empty>>
        ELSE LET c == D[1]
                 a == D[2]
                 y == D[3]
                 b == D[4]
             IN  IF k = y[1] /\ a = Empty THEN D
                 ELSE IF k < y[1] /\ a = Empty
                      THEN balance(rehash(<<"R", ins_leafdup(k, a), x, make_black(D)>>))
                 ELSE IF k > y[1] /\ b = Empty
                      THEN balance(rehash(<<"R", make_black(D), y, ins_leafdup(k, b)>>))
                 ELSE IF k < y[1] THEN balance(<<c, ins_leafdup(k, a), y, b>>)
                 ELSE balance(<<c, a, y, ins_leafdup(k, b)>>)

RECURSIVE ins(_, _)
ins(k, D) ==
    LET x == <<k, EmptyDigest, EmptyDigest>>
    IN  IF D = Empty THEN <<"B", Empty, x, Empty>>
        ELSE LET c == D[1]
                 a == D[2]
                 y == D[3]
                 b == D[4]
             IN  IF k = y[1] THEN D
                 ELSE IF k < y[1] /\ a = Empty
                      THEN balance(rehash(<<"R", ins(k, a), x, make_black(D)>>))
                 ELSE IF k > y[1] /\ b = Empty
                      THEN balance(rehash(<<"R", make_black(D), y, ins(k, b)>>))
                 ELSE IF k < y[1] THEN balance(<<c, ins(k, a), y, b>>)
                 ELSE balance(<<c, a, y, ins(k, b)>>)

\* insert that leaves the colour of the root as ins returns it
insert_noblack(k, D) == rehash(ins(k, D))

insert(k, D) == rehash(make_black(ins(k, D)))

\* ---------------------------------------------------------- search, query
\* search that descends to the left only for a smaller key
RECURSIVE search_lt(_, _)
search_lt(k0, D) ==
    IF D = Empty THEN <<>>
    ELSE LET child == IF k0 < D[3][1] THEN D[2] ELSE D[4]
         IN  <<(<<D[1], D[3]>>)>> \o search_lt(k0, child)

RECURSIVE search(_, _)
search(k0, D) ==
    IF D = Empty THEN <<>>
    ELSE LET child == IF k0 <= D[3][1] THEN D[2] ELSE D[4]
         IN  <<(<<D[1], D[3]>>)>> \o search(k0, child)

\* the membership answer is Python's True, False or None
query(k0, D) ==
    LET pf == search(k0, D)
    IN  IF pf = <<>> THEN <<"None", pf>>
        ELSE <<IF pf[Len(pf)][2][1] = k0 THEN "True" ELSE "False", pf>>

\* ----------------------------------------------------- reconstruct, verify
\* the outcome of a failed assert
AssertionError == <<"AssertionError">>

\* reconstruct that does not compare the digest of the child
RECURSIVE reconstruct_nodigest(_)
reconstruct_nodigest(pf) ==
    IF pf = <<>> THEN Empty
    ELSE LET c == pf[1][1]
             k == pf[1][2][1]
             hL == pf[1][2][2]
             hR == pf[1][2][3]
             child == reconstruct_nodigest(Tail(pf))
         IN  IF child = AssertionError THEN AssertionError
             ELSE IF child = Empty
                  THEN IF hL = hR /\ hR = EmptyDigest
                       THEN <<c, Empty, <<k, hL, hR>>, Empty>>
                       ELSE AssertionError
             ELSE IF child[3][1] <= k
                  THEN <<c, child, <<k, hL, hR>>, Empty>>
             ELSE <<c, Empty, <<k, hL, hR>>, child>>

RECURSIVE reconstruct(_)
reconstruct(pf) ==
    IF pf = <<>> THEN Empty
    ELSE LET c == pf[1][1]
             k == pf[1][2][1]
             hL == pf[1][2][2]
             hR == pf[1][2][3]
             child == reconstruct(Tail(pf))
         IN  IF child = AssertionError THEN AssertionError
             ELSE IF child = Empty
                  THEN IF hL = hR /\ hR = EmptyDigest
                       THEN <<c, Empty, <<k, hL, hR>>, Empty>>
                       ELSE AssertionError
             ELSE IF child[3][1] <= k
                  THEN IF hL = digest(child)
                       THEN <<c, child, <<k, hL, hR>>, Empty>>
                       ELSE AssertionError
             ELSE IF hR = digest(child)
                  THEN <<c, Empty, <<k, hL, hR>>, child>>
                  ELSE AssertionError

\* verify that does not replay the search
verify_noreplay(k0, d0, pf) ==
    LET r == reconstruct(pf)
    IN  IF r = AssertionError THEN "AssertionError"
        ELSE IF digest(r) # d0 THEN "AssertionError"
        ELSE "True"

\* "True", or "AssertionError" when one of the asserts fails
verify(k0, d0, pf) ==
    LET r == reconstruct(pf)
    IN  IF r = AssertionError THEN "AssertionError"
        ELSE IF digest(r) # d0 THEN "AssertionError"
        ELSE IF pf # search(k0, r) THEN "AssertionError"
        ELSE "True"

\* ------------------------------------------------------------ the machine
\* value of a result that no call has produced yet
Unset == "unset"

Init ==
    /\ tree = Empty
    /\ prev = Empty
    /\ inserted = {}
    /\ dup = FALSE
    /\ op = "init"
    /\ q = 0
    /\ member = Unset
    /\ proof = <<>>
    /\ verdict = Unset

\* D = insert(k, D)
Insert(k) ==
    /\ Cardinality(inserted \cup {k}) <= MaxSize
    /\ tree' = insert(k, tree)
    /\ prev' = tree
    /\ inserted' = inserted \cup {k}
    /\ dup' = (k \in inserted)
    /\ op' = "insert"
    /\ q' = k
    /\ member' = Unset
    /\ proof' = <<>>
    /\ verdict' = Unset

\* member, proof = query(k0, D)
Query(k0) ==
    /\ q' = k0
    /\ member' = query(k0, tree)[1]
    /\ proof' = query(k0, tree)[2]
    /\ op' = "query"
    /\ verdict' = Unset
    /\ UNCHANGED <<tree, prev, inserted, dup>>

\* verify(k0, digest(D), proof)
Verify(k0) ==
    /\ op # "verify"
    /\ q' = k0
    /\ verdict' = verify(k0, digest(tree), proof)
    /\ op' = "verify"
    /\ UNCHANGED <<tree, prev, inserted, dup, member, proof>>

\* ------------------------------------------- the proof on its way to verify
\* the subtrees of D, D included
RECURSIVE Nodes(_)
Nodes(D) ==
    IF D = Empty THEN {}
    ELSE {D} \cup Nodes(D[2]) \cup Nodes(D[4])

\* what a step of a proof can carry as a digest: '', every digest of the
\* tree, and the empty tree () in the place of a digest
TreeDigests(D) == {EmptyDigest, Empty} \cup {digest(n) : n \in Nodes(D)}

\* the digest of a leaf that holds any key, in any colour
LeafDigests(ks) == {H(<<c, k, EmptyDigest, EmptyDigest>>) : c \in Colors, k \in ks}

TamperKeys == 1..TamperMaxKey
ForgeKeys == 1..ForgeMaxKey

\* field f of (k, dL, dR) of step i of the proof of a query is replaced by
\* another value v before the proof reaches verify
Tamper(i, f, v) ==
    /\ op = "query"
    /\ i \in 1..Len(proof)
    /\ v # proof[i][2][f]
    /\ proof' = [proof EXCEPT ![i][2][f] = v]
    /\ op' = "tamper"
    /\ verdict' = Unset
    /\ UNCHANGED <<tree, prev, inserted, dup, q, member>>

\* the steps a forged proof is made of
StepDomain(D) ==
    {<<c, <<k, dL, dR>>>> : c \in Colors, k \in ForgeKeys,
                            dL \in TreeDigests(D), dR \in TreeDigests(D)}

\* a proof is made up, last step first, without a query, of steps that
\* reconstruct takes; a proof that reconstruct refuses stays refused
\* whatever is put in front of it, since reconstruct(proof) handles the
\* rest of the proof first
Forge(step) ==
    /\ op \in {"init", "insert", "forge"}
    /\ Len(proof) < MaxProofLen
    /\ reconstruct(<<step>> \o proof) # AssertionError
    /\ proof' = <<step>> \o proof
    /\ op' = "forge"
    /\ member' = Unset
    /\ verdict' = Unset
    /\ UNCHANGED <<tree, prev, inserted, dup, q>>

Next ==
    \/ \E k \in Keys : Insert(k)
    \/ \E k0 \in QueryKeys : Query(k0)
    \/ Verify(q)

Spec == Init /\ [][Next]_vars

NextTamper ==
    \/ \E k \in Keys \cap TamperKeys : Insert(k)
    \/ \E k0 \in TamperKeys : Query(k0)
    \/ \E i \in 1..Len(proof) : \E v \in TamperKeys : Tamper(i, 1, v)
    \/ \E i \in 1..Len(proof), f \in {2, 3} :
          \E v \in TreeDigests(tree) \cup LeafDigests(TamperKeys) : Tamper(i, f, v)
    \/ Verify(q)

SpecTamper == Init /\ [][NextTamper]_vars

NextForge ==
    \/ \E k \in Keys \cap ForgeKeys : Insert(k)
    \/ \E step \in StepDomain(tree) : Forge(step)
    \/ \E k0 \in ForgeKeys : Verify(k0)

SpecForge == Init /\ [][NextForge]_vars

\* ------------------------------------------------- properties of the tree
Key(n) == n[3][1]

RedRed(n) ==
    /\ n[1] = "R"
    /\ \/ (n[2] # Empty /\ n[2][1] = "R")
       \/ (n[4] # Empty /\ n[4][1] = "R")

\* number of Black nodes on each path from D down to an empty child
RECURSIVE BlackHeights(_)
BlackHeights(D) ==
    IF D = Empty THEN {0}
    ELSE {h + (IF D[1] = "B" THEN 1 ELSE 0) :
              h \in BlackHeights(D[2]) \cup BlackHeights(D[4])}

\* number of nodes on each path from D down to an empty child
RECURSIVE Depths(_)
Depths(D) ==
    IF D = Empty THEN {0}
    ELSE {h + 1 : h \in Depths(D[2]) \cup Depths(D[4])}

Longest(D) == CHOOSE h \in Depths(D) : \A g \in Depths(D) : g <= h
Shortest(D) == CHOOSE h \in Depths(D) : \A g \in Depths(D) : h <= g

\* what ins(k, D) hands to balance for a node D with children and another
\* key than k
BalanceArg(k, D) ==
    IF k < D[3][1] THEN <<D[1], ins(k, D[2]), D[3], D[4]>>
    ELSE <<D[1], D[2], D[3], ins(k, D[4])>>

\* the last insert brought a new key and went through the balance of the
\* root of a tree with children
AtRoot ==
    /\ op = "insert" /\ ~dup
    /\ prev # Empty /\ prev[2] # Empty /\ Key(prev) # q

\* the tree of the scenario: 5, 3, 7, 9, 11 inserted in that order
ScenarioPrev == insert(9, insert(7, insert(3, insert(5, Empty))))
ScenarioTree == insert(11, ScenarioPrev)
InScenario == tree = ScenarioTree /\ prev = ScenarioPrev

\* the proof is the one query returned for q, as it was returned
Honest == member # Unset /\ proof = search(q, tree)

\* C1: every inserted key k is reported as a member by query(k, T), and
\* verify(k, digest(T), proof) returns True on the proof query returned.
C1_MemberProofVerifies ==
    /\ (op = "query" /\ q \in inserted) => member = "True"
    /\ (op = "verify" /\ q \in inserted /\ Honest) => verdict = "True"
    /\ \A k \in inserted :
          /\ query(k, tree)[1] = "True"
          /\ verify(k, digest(tree), query(k, tree)[2]) = "True"

C1_Witness ==
    /\ op = "verify" /\ q \in inserted /\ Honest
    /\ member = "True" /\ verdict = "True"
    /\ Cardinality(inserted) >= 4 /\ Len(proof) >= 3

\* C2: every key k that was not inserted, also when nothing was inserted,
\* gets membership False from query(k, T), and verify(k, digest(T), proof)
\* returns True on the proof query returned.  query answers None instead of
\* False on the empty tree.
C2_NonMemberProofVerifies ==
    /\ (op = "query" /\ q \notin inserted) => member = "False"
    /\ (op = "verify" /\ q \notin inserted /\ Honest) => verdict = "True"

\* C3: a proof returned by query in which one key or one digest of one step
\* was replaced by a different value makes verify fail on an assert.
C3_TamperedProofRejected ==
    /\ op = "tamper" => verify(q, digest(tree), proof) = "AssertionError"
    /\ (op = "verify" /\ member # Unset /\ proof # search(q, tree)) =>
          verdict = "AssertionError"

\* a tampered proof that reconstruct takes and whose digest is the trusted
\* one: only the replay of the search refuses it
C3_Witness ==
    /\ op = "verify" /\ member # Unset /\ proof # search(q, tree)
    /\ verdict = "AssertionError"
    /\ reconstruct(proof) # AssertionError
    /\ digest(reconstruct(proof)) = digest(tree)

\* C4 as claimed: in the scenario query(7, T) answers True with a proof of
\* exactly 2 steps that ends in key 7, and the proof verifies.
C4_Original ==
    /\ (op = "query" /\ q = 7 /\ InScenario) =>
          /\ member = "True"
          /\ Len(proof) = 2
          /\ proof[Len(proof)][2][1] = 7
    /\ (op = "verify" /\ q = 7 /\ InScenario /\ Honest) => verdict = "True"

\* C4 as amended: in the scenario query(7, T) answers True with a proof of
\* exactly 3 steps: the root (Black, key 5), the inner node (Black, key 7)
\* and the leaf that holds 7 (Black, no children); the proof verifies.
C4_ScenarioProof ==
    /\ (op = "query" /\ q = 7 /\ InScenario) =>
          /\ member = "True"
          /\ Len(proof) = 3
          /\ [i \in 1..3 |-> proof[i][1]] = <<"B", "B", "B">>
          /\ [i \in 1..3 |-> proof[i][2][1]] = <<5, 7, 7>>
          /\ proof[3][2] = <<7, EmptyDigest, EmptyDigest>>
    /\ (op = "verify" /\ q = 7 /\ InScenario /\ Honest) => verdict = "True"

C4_Witness ==
    /\ op = "verify" /\ q = 7 /\ InScenario /\ Honest
    /\ Len(proof) = 3 /\ verdict = "True"

\* C5: after any inserts no Red node has a Red child and the root of a
\* tree that is not empty is Black.
C5_RedBlackColours ==
    /\ \A n \in Nodes(tree) : ~RedRed(n)
    /\ tree # Empty => tree[1] = "B"

\* the last insert left a Red root for insert to blacken, after a rewrite
C5_Witness ==
    /\ AtRoot
    /\ match1(BalanceArg(q, prev)) # Empty
    /\ ins(q, prev)[1] = "R"
    /\ \E n \in Nodes(tree) : n[1] = "R"

\* C6: inserting a key that is present returns the tree unchanged, and so
\* inserting any key twice gives the tree that inserting it once gives.
C6_InsertIdempotent ==
    /\ (op = "insert" /\ dup) => tree = prev
    /\ \A k \in inserted : insert(k, tree) = tree
    /\ \A k \in Keys : insert(k, insert(k, tree)) = insert(k, tree)

\* a key that an inner node holds as well was inserted again
C6_Witness ==
    /\ op = "insert" /\ dup /\ tree = prev
    /\ Cardinality(inserted) >= 4
    /\ \E n \in Nodes(tree) : n[2] # Empty /\ Key(n) = q

\* C7: in the tree every cached digest is the digest of the child on its
\* side, and '' where there is no child.
C7_DigestCoherence ==
    \A n \in Nodes(tree) :
        /\ n[3][2] = digest(n[2])
        /\ n[3][3] = digest(n[4])
        /\ n[2] = Empty => n[3][2] = EmptyDigest
        /\ n[4] = Empty => n[3][3] = EmptyDigest

\* the second rewrite was applied at the root, to a node whose cached
\* digest of the side of the new key was out of date
C7_Witness ==
    /\ AtRoot
    /\ match2(BalanceArg(q, prev)) # Empty
    /\ BalanceArg(q, prev)[3][2] # digest(BalanceArg(q, prev)[2])

\* C8: every key in the left subtree of a node is <= the key of the node
\* and every key in its right subtree is greater.
C8_SearchOrder ==
    \A n \in Nodes(tree) :
        /\ \A m \in Nodes(n[2]) : Key(m) <= Key(n)
        /\ \A m \in Nodes(n[4]) : Key(m) > Key(n)

\* the third rewrite was applied at the root
C8_Witness ==
    /\ AtRoot
    /\ match3(BalanceArg(q, prev)) # Empty
    /\ Key(tree) # Key(prev)

\* C9: a proof that verify accepts for q against digest(T) is the proof
\* search(q, T) yields, so its last step holds q exactly when q was inserted.
C9_AcceptedProofIsSearch ==
    (op = "verify" /\ verdict = "True") =>
        /\ proof = search(q, tree)
        /\ proof # <<>> => ((proof[Len(proof)][2][1] = q) <=> (q \in inserted))

\* a made-up proof of three steps was accepted
C9_Witness ==
    /\ op = "verify" /\ verdict = "True"
    /\ member = Unset
    /\ Len(proof) >= 3

\* C10: all paths from the root to an empty child hold the same number of
\* Black nodes, and the longest is at most twice as long as the shortest.
C10_BlackHeight ==
    /\ Cardinality(BlackHeights(tree)) = 1
    /\ Longest(tree) <= 2 * Shortest(tree)

\* the fourth rewrite was applied below the root and the tree has paths of
\* different lengths
C10_Witness ==
    /\ AtRoot
    /\ LET below == IF q < Key(prev) THEN prev[2] ELSE prev[4]
       IN  /\ below[2] # Empty
           /\ Key(below) # q
           /\ match4(BalanceArg(q, below)) # Empty
    /\ Longest(tree) > Shortest(tree)

====
